---- MODULE Spec2Model ----
(***************************************************************************)
(* Model of the prefix trie of include/tscore/Trie.h and of the remap      *)
(* plugin chain executor of proxy/http/remap/RemapPlugins.cc.              *)
(*                                                                         *)
(* A trie node is identified by the byte path that leads to it from the    *)
(* root (the root is the empty path); a node's children field is the set   *)
(* of bytes whose child slot is non-null.  Values are heap objects named   *)
(* 1..MaxValues; 0 is the null pointer.                                    *)
(***************************************************************************)
EXTENDS Integers, Sequences, FiniteSets, TLC

\* ---------------------------------------------------------------- bounds
MaxKeyLen == 1
MaxValues == 2
MaxRank == 1
MaxPlugins == 3

\* ------------------------------------------------------- program constants
TSREMAP_NO_REMAP == 0
TSREMAP_DID_REMAP == 1
TSREMAP_NO_REMAP_STOP == 2
TSREMAP_DID_REMAP_STOP == 3
TSREMAP_ERROR == -1

\* ------------------------------------------------------------ value sets
Bytes == {0, 1}
Ranks == 0..MaxRank
Values == 1..MaxValues
NullValue == 0
RECURSIVE SeqsUpTo(_)
SeqsUpTo(n) ==
  IF n = 0 THEN {<<>>}
  ELSE LET S == SeqsUpTo(n - 1)
       IN S \cup {Append(s, b) : s \in {t \in S : Len(t) = n - 1}, b \in Bytes}
\* The keys tried: every byte string up to the bound, and one two-byte key
\* whatever the bound, so that an Insert has a chain of nodes to create.
LongKey == <<1, 1>>
Keys == SeqsUpTo(MaxKeyLen) \cup {LongKey}
SearchKeys == SeqsUpTo(MaxKeyLen + 1) \cup {Append(LongKey, 1)}
NullKey == <<-1>>
NullNode == <<-1>>
RootNode == <<>>

VARIABLES
  nodes,          \* Trie::m_root and every node allocated below it
  m_value_list,   \* Trie::m_value_list, head first
  alive,          \* the trie has been constructed and not yet destructed
  stored,         \* history: key -> [value, rank] of the accepted inserts since the last Clear
  insertOrder,    \* history: values of the accepted inserts since the last Clear, in call order
  allocated,      \* history: number of value objects the caller has created
  accepted,       \* history: values some Insert returned true for
  destroyed,      \* history: value -> number of times the trie deleted it
  lastOp,         \* history: the last trie call, the key bytes it addressed and its result
  nplugins,       \* url_mapping::plugin_instance_count()
  cur,            \* RemapPlugins::_cur
  rewritten,      \* RemapPlugins::_rewritten
  remap_redirect, \* HttpTransact::State::remap_redirect
  request_url,    \* *RemapPlugins::_request_url
  results,        \* history: the return values of run_single_remap, in call order
  invoked,        \* history: the plugin invocations, in call order
  baseRewrites,   \* history: number of calls of url_rewrite_remap_request
  execs,          \* executor -> a RemapPlugins and its transaction, for interleaved chains
  lastRun,        \* history: the executor whose step the driver ran last (0: none yet)
  resumed         \* history: the executors that took a step right after another chain's step
                  \*          that followed a step of their own

trieVars == <<nodes, m_value_list, alive, stored, insertOrder, allocated, accepted, destroyed, lastOp>>
remapVars == <<nplugins, cur, rewritten, remap_redirect, request_url, results, invoked, baseRewrites>>
execVars == <<execs, lastRun, resumed>>
vars == <<nodes, m_value_list, alive, stored, insertOrder, allocated, accepted, destroyed, lastOp,
          nplugins, cur, rewritten, remap_redirect, request_url, results, invoked, baseRewrites,
          execs, lastRun, resumed>>

\* ------------------------------------------------------------------ Queue
enqueue(list, v) == Append(list, v)
empty(list) == list = <<>>
IterateValues(list) == list

\* ------------------------------------------------------------- Trie::Node
NodeClear == [value |-> NullValue, occupied |-> FALSE, rank |-> 0, children |-> {}]

GetChild(ns, node, index) ==
  IF index \in ns[node].children THEN Append(node, index) ELSE NullNode

\* A plausible slip: child->Clear() is missing and the new memory holds a
\* stale rank.
AllocateChildUncleared(ns, node, index) ==
  LET child == Append(node, index)
  IN [p \in DOMAIN ns \cup {child} |->
        IF p = child THEN [NodeClear EXCEPT !.rank = 1]
        ELSE IF p = node THEN [ns[p] EXCEPT !.children = @ \cup {index}]
        ELSE ns[p]]

AllocateChild(ns, node, index) ==
  LET child == Append(node, index)
  IN [p \in DOMAIN ns \cup {child} |->
        IF p = child THEN NodeClear
        ELSE IF p = node THEN [ns[p] EXCEPT !.children = @ \cup {index}]
        ELSE ns[p]]

\* ------------------------------------------------------------------ Trie
RECURSIVE strlen(_)
strlen(key) ==
  IF key = <<>> \/ Head(key) = 0 THEN 0 ELSE 1 + strlen(Tail(key))

_CheckArgs(key, key_len) ==
  IF key = NullKey THEN 0
  ELSE IF key_len = -1 THEN strlen(key)
  ELSE key_len

EmptyTrie == [p \in {RootNode} |-> NodeClear]

\* Insert, lines 163-167: the inner loop that creates the missing nodes.
RECURSIVE InsertAllocate(_, _, _, _, _)
InsertAllocate(ns, key, key_len, i, curr_node) ==
  IF i < key_len
  THEN InsertAllocate(AllocateChild(ns, curr_node, key[i + 1]), key, key_len, i + 1,
                      Append(curr_node, key[i + 1]))
  ELSE [nodes |-> ns, curr_node |-> curr_node]

\* Insert, lines 151-172: the walk to the node of the key.
RECURSIVE InsertWalk(_, _, _, _, _)
InsertWalk(ns, key, key_len, i, curr_node) ==
  IF i = key_len THEN [nodes |-> ns, curr_node |-> curr_node]
  ELSE LET next_node == GetChild(ns, curr_node, key[i + 1])
       IN IF next_node = NullNode
          THEN InsertAllocate(ns, key, key_len, i, curr_node)
          ELSE InsertWalk(ns, key, key_len, i + 1, next_node)

\* A plausible slip: the value is overwritten without the duplicate test.
InsertStoreNoDuplicateTest(ns, list, curr_node, value, rank) ==
  [nodes |-> [ns EXCEPT ![curr_node] = [@ EXCEPT !.occupied = TRUE, !.value = value, !.rank = rank]],
   list |-> enqueue(list, value),
   ret |-> ~ns[curr_node].occupied]

\* A plausible slip: the value is queued before the duplicate test.
InsertStoreEnqueueFirst(ns, list, curr_node, value, rank) ==
  IF ns[curr_node].occupied
  THEN [nodes |-> ns, list |-> enqueue(list, value), ret |-> FALSE]
  ELSE [nodes |-> [ns EXCEPT ![curr_node] = [@ EXCEPT !.occupied = TRUE, !.value = value, !.rank = rank]],
        list |-> enqueue(list, value),
        ret |-> TRUE]

\* A plausible slip: the value is pushed at the head of the list.
InsertStorePush(ns, list, curr_node, value, rank) ==
  IF ns[curr_node].occupied
  THEN [nodes |-> ns, list |-> list, ret |-> FALSE]
  ELSE [nodes |-> [ns EXCEPT ![curr_node] = [@ EXCEPT !.occupied = TRUE, !.value = value, !.rank = rank]],
        list |-> <<value>> \o list,
        ret |-> TRUE]

\* Insert, lines 174-184: the duplicate test and the store.
InsertStore(ns, list, curr_node, value, rank) ==
  IF ns[curr_node].occupied
  THEN [nodes |-> ns, list |-> list, ret |-> FALSE]
  ELSE [nodes |-> [ns EXCEPT ![curr_node] = [@ EXCEPT !.occupied = TRUE, !.value = value, !.rank = rank]],
        list |-> enqueue(list, value),
        ret |-> TRUE]

TrieInsert(ns, list, key, value, rank, key_len) ==
  LET len == _CheckArgs(key, key_len)
      walk == InsertWalk(ns, key, len, 0, RootNode)
  IN InsertStore(walk.nodes, list, walk.curr_node, value, rank)

\* A plausible slip: < in place of <=.
RankReplacesStrict(curr_rank, found_rank) == curr_rank < found_rank

\* Search, line 203: the rank comparison.
RankReplaces(curr_rank, found_rank) == curr_rank <= found_rank

\* A plausible slip: the occupied test is missing.
SearchVisitAnyNode(ns, curr_node, found_node) ==
  IF found_node = NullNode \/ RankReplaces(ns[curr_node].rank, ns[found_node].rank)
  THEN curr_node
  ELSE found_node

\* Search, lines 202-206: the candidate after the visit of curr_node.
SearchVisit(ns, curr_node, found_node) ==
  IF ns[curr_node].occupied
  THEN IF found_node = NullNode \/ RankReplaces(ns[curr_node].rank, ns[found_node].rank)
       THEN curr_node
       ELSE found_node
  ELSE found_node

\* Search, lines 197-212: the walk; yields found_node.
RECURSIVE SearchWalk(_, _, _, _, _, _)
SearchWalk(ns, key, key_len, i, curr_node, found_node) ==
  IF curr_node = NullNode THEN found_node
  ELSE LET found == SearchVisit(ns, curr_node, found_node)
       IN IF i = key_len THEN found
          ELSE SearchWalk(ns, key, key_len, i + 1, GetChild(ns, curr_node, key[i + 1]), found)

TrieSearch(ns, key, key_len) ==
  LET len == _CheckArgs(key, key_len)
      found_node == SearchWalk(ns, key, len, 0, RootNode, NullNode)
  IN IF found_node # NullNode THEN ns[found_node].value ELSE NullValue

\* _Clear: the nodes that stay allocated once every node below `node` has
\* been freed.
RECURSIVE _Clear(_, _)
_Clear(ns, node) ==
  LET kids == {Append(node, c) : c \in ns[node].children}
      freed == UNION {DOMAIN ns \ DOMAIN _Clear(ns, k) : k \in kids} \cup kids
  IN [p \in DOMAIN ns \ freed |-> ns[p]]

\* A plausible slip: `if` in place of `while`, so only the head is deleted.
DrainValueListOnce(list) ==
  IF list = <<>> THEN [list |-> list, deleted |-> <<>>]
  ELSE [list |-> Tail(list), deleted |-> <<Head(list)>>]

\* Clear, lines 241-244: pop and delete until the list is empty.
RECURSIVE DrainValueList(_)
DrainValueList(list) ==
  IF list = <<>> THEN [list |-> list, deleted |-> <<>>]
  ELSE LET rest == DrainValueList(Tail(list))
       IN [list |-> rest.list, deleted |-> <<Head(list)>> \o rest.deleted]

TrieClear(ns, list) ==
  LET drained == DrainValueList(list)
      kept == _Clear(ns, RootNode)
  IN [nodes |-> [kept EXCEPT ![RootNode] = NodeClear],
      list |-> drained.list,
      deleted |-> drained.deleted]

Empty == empty(m_value_list)

\* ----------------------------------------------------------- RemapPlugins
\* A URL is <<origin, n>>: the client's URL, the URL the mapping rule's base
\* rewrite produced, or the URL plugin n wrote.
ClientURL == <<"request", 0>>
PluginURL(n) == <<"plugin", n>>
NullString == <<"null">>
Statuses == -1..4

url_rewrite_remap_request(url) == <<"to", 0>>
string_get(url) == <<"str", url[1], url[2]>>
get_plugin_instance(count, n) == n < count

\* A plausible slip: the negative return codes are passed on.
NormalizeRetcodeAbs(plugin_retcode) ==
  IF plugin_retcode < 0 THEN -plugin_retcode ELSE plugin_retcode

\* run_plugin, lines 61-63.
NormalizeRetcode(plugin_retcode) ==
  IF plugin_retcode < 0 THEN TSREMAP_NO_REMAP ELSE plugin_retcode

\* A plausible slip: the redirect flag alone captures the redirect.
RedirectCapturedAnyStatus(plugin_retcode, redirect) == redirect # 0

\* run_plugin, line 66.
RedirectCaptured(plugin_retcode, redirect) ==
  /\ TSREMAP_DID_REMAP = plugin_retcode \/ TSREMAP_DID_REMAP_STOP = plugin_retcode
  /\ redirect # 0

\* run_plugin: `out` is what doRemap did: the status it returned, the
\* redirect flag it left in rri and the request URL it left behind.  The
\* bookkeeping of os_response_plugin_inst and of the API milestones is read
\* by no later step of the chain and is left out.
run_plugin(redirect_before, out) ==
  LET plugin_retcode == NormalizeRetcode(out.status)
  IN [retcode |-> plugin_retcode,
      remap_redirect |-> IF RedirectCaptured(plugin_retcode, out.redirect)
                         THEN string_get(out.url)
                         ELSE redirect_before,
      request_url |-> out.url]

\* A plausible slip: only DID_REMAP is counted.
CountsRewriteNoStop(plugin_retcode) == TSREMAP_DID_REMAP = plugin_retcode

\* run_single_remap, line 110.
CountsRewrite(plugin_retcode) ==
  TSREMAP_DID_REMAP_STOP = plugin_retcode \/ TSREMAP_DID_REMAP = plugin_retcode

\* A plausible slip: the stop statuses do not end the chain.
ChainDoneNoStop(plugin_retcode, _cur, count) == _cur >= count

\* A plausible slip: > in place of >=, one more call after the last plugin.
ChainDoneLate(plugin_retcode, _cur, count) ==
  IF TSREMAP_NO_REMAP_STOP = plugin_retcode \/ TSREMAP_DID_REMAP_STOP = plugin_retcode
  THEN TRUE
  ELSE _cur > count

\* A plausible slip: == in place of >=.
ChainDoneExact(plugin_retcode, _cur, count) ==
  IF TSREMAP_NO_REMAP_STOP = plugin_retcode \/ TSREMAP_DID_REMAP_STOP = plugin_retcode
  THEN TRUE
  ELSE _cur = count

\* run_single_remap, lines 114-121: zret when no redirect was captured.
ChainDone(plugin_retcode, _cur, count) ==
  IF TSREMAP_NO_REMAP_STOP = plugin_retcode \/ TSREMAP_DID_REMAP_STOP = plugin_retcode
  THEN TRUE
  ELSE IF _cur >= count THEN TRUE
  ELSE FALSE

\* A plausible slip: the redirect test is missing.
RedirectEndsChainNever(redirect) == FALSE

\* run_single_remap, line 109.
RedirectEndsChain(redirect) == redirect # NullString

\* A plausible slip: the base rewrite is applied by every call.
FirstStepAlways(_cur) == TRUE

\* run_single_remap, line 95: the call that applies the base rewrite.
FirstStep(_cur) == 0 = _cur

\* A plausible slip: the cursor is advanced twice.
AdvanceCursorTwice(_cur) == _cur + 2

\* run_single_remap, line 106.
AdvanceCursor(_cur) == _cur + 1

\* run_single_remap: st is the executor and transaction state before the
\* call, out the behaviour of the plugin at _cur (unused if there is none).
run_single_remap(st, out) ==
  LET plugin == get_plugin_instance(st.nplugins, st.cur)
      url0 == IF FirstStep(st.cur) THEN url_rewrite_remap_request(st.request_url)
              ELSE st.request_url
      ran == IF plugin
             THEN run_plugin(st.remap_redirect, out)
             ELSE [retcode |-> TSREMAP_NO_REMAP, remap_redirect |-> st.remap_redirect,
                   request_url |-> url0]
      _cur == AdvanceCursor(st.cur)
      redirected == RedirectEndsChain(ran.remap_redirect)
  IN [nplugins |-> st.nplugins,
      cur |-> _cur,
      rewritten |-> IF ~redirected /\ CountsRewrite(ran.retcode)
                    THEN st.rewritten + 1 ELSE st.rewritten,
      remap_redirect |-> ran.remap_redirect,
      request_url |-> ran.request_url,
      zret |-> IF ~redirected THEN ChainDone(ran.retcode, _cur, st.nplugins) ELSE TRUE,
      based |-> FirstStep(st.cur),
      plugin |-> plugin]

\* The RemapPlugins objects of concurrent transactions, each with its own
\* request and transaction state.
Executors == {1, 2}

NewExecutor(count) ==
  [nplugins |-> count, cur |-> 0, rewritten |-> 0, remap_redirect |-> NullString,
   request_url |-> ClientURL, results |-> <<>>, invoked |-> <<>>]

\* A plausible slip: the redirect is kept in one place for all transactions.
ExecutorViewSharedRedirect(ex, e) ==
  [nplugins |-> ex[e].nplugins, cur |-> ex[e].cur, rewritten |-> ex[e].rewritten,
   remap_redirect |-> IF \E f \in DOMAIN ex : ex[f].remap_redirect # NullString
                      THEN (CHOOSE r \in {ex[f].remap_redirect : f \in DOMAIN ex} :
                              r # NullString)
                      ELSE NullString,
   request_url |-> ex[e].request_url]

\* What run_single_remap of executor e reads: its own _cur and _rewritten,
\* its own mapping, and the request and state of its own transaction _s.
ExecutorView(ex, e) ==
  [nplugins |-> ex[e].nplugins, cur |-> ex[e].cur, rewritten |-> ex[e].rewritten,
   remap_redirect |-> ex[e].remap_redirect, request_url |-> ex[e].request_url]

\* The executor after one run_single_remap that started from the state
\* `view`, with its return value and its plugin invocation recorded.
AfterStep(x, view, out) ==
  LET r == run_single_remap(view, out)
  IN [nplugins |-> x.nplugins, cur |-> r.cur, rewritten |-> r.rewritten,
      remap_redirect |-> r.remap_redirect, request_url |-> r.request_url,
      results |-> Append(x.results, r.zret),
      invoked |-> IF r.plugin THEN Append(x.invoked, out) ELSE x.invoked]

\* ------------------------------------------------------------ trie calls
\* The bytes a call addresses: the first key_len bytes of the buffer, after
\* the defaulting of _CheckArgs.
KeyBytes(key, key_len) == SubSeq(key, 1, _CheckArgs(key, key_len))

\* The key_len arguments tried with a buffer: the default, and the explicit
\* length where it reads other bytes than the default does (a null key, a
\* buffer with a zero byte). A shorter explicit length reads the same bytes
\* as a shorter buffer.
KeyLens(key) ==
  IF key = NullKey THEN {-1, 1}
  ELSE IF strlen(key) # Len(key) THEN {-1, Len(key)}
  ELSE {-1}

NoStored == [k \in {} |-> [value |-> NullValue, rank |-> 0]]

NoOp == [op |-> "Trie", key |-> <<>>, ret |-> FALSE, found |-> NullValue]

\* The values the caller may hand to Insert: a new object, or one it still
\* owns because every Insert of it was rejected.  A null value, or an object
\* the trie already owns, is never passed.
CallerValues ==
  {v \in Values : v <= allocated /\ v \notin accepted}
    \cup (IF allocated < MaxValues THEN {allocated + 1} ELSE {})

\* Trie(): m_root.Clear() and an empty value list; no remap chain.
TrieInit ==
  /\ nodes = EmptyTrie
  /\ m_value_list = <<>>
  /\ alive = TRUE
  /\ stored = NoStored
  /\ insertOrder = <<>>
  /\ allocated = 0
  /\ accepted = {}
  /\ destroyed = [v \in Values |-> 0]
  /\ lastOp = NoOp
  /\ nplugins = 0
  /\ cur = 0
  /\ rewritten = 0
  /\ remap_redirect = NullString
  /\ request_url = ClientURL
  /\ results = <<>>
  /\ invoked = <<>>
  /\ baseRewrites = 0
  /\ execs = [e \in Executors |-> NewExecutor(0)]
  /\ lastRun = 0
  /\ resumed = {}

\* A new RemapPlugins bound to a matched rule, before its first
\* run_single_remap; the trie is left as constructed.
RemapInit ==
  /\ nplugins \in 0..MaxPlugins
  /\ cur = 0
  /\ rewritten = 0
  /\ remap_redirect = NullString
  /\ request_url = ClientURL
  /\ results = <<>>
  /\ invoked = <<>>
  /\ baseRewrites = 0
  /\ nodes = EmptyTrie
  /\ m_value_list = <<>>
  /\ alive = TRUE
  /\ stored = NoStored
  /\ insertOrder = <<>>
  /\ allocated = 0
  /\ accepted = {}
  /\ destroyed = [v \in Values |-> 0]
  /\ lastOp = NoOp
  /\ execs = [e \in Executors |-> NewExecutor(0)]
  /\ lastRun = 0
  /\ resumed = {}

Insert(key, value, rank, key_len) ==
  /\ alive
  /\ LET r == TrieInsert(nodes, m_value_list, key, value, rank, key_len)
         k == KeyBytes(key, key_len)
     IN /\ nodes' = r.nodes
        /\ m_value_list' = r.list
        /\ stored' = IF r.ret
                     THEN [x \in DOMAIN stored \cup {k} |->
                             IF x = k THEN [value |-> value, rank |-> rank] ELSE stored[x]]
                     ELSE stored
        /\ insertOrder' = IF r.ret THEN Append(insertOrder, value) ELSE insertOrder
        /\ accepted' = IF r.ret THEN accepted \cup {value} ELSE accepted
        /\ lastOp' = [op |-> "Insert", key |-> k, ret |-> r.ret, found |-> NullValue]
  /\ allocated' = IF value > allocated THEN value ELSE allocated
  /\ UNCHANGED <<alive, destroyed>>
  /\ UNCHANGED remapVars
  /\ UNCHANGED execVars

Search(key, key_len) ==
  /\ alive
  /\ lastOp' = [NoOp EXCEPT !.op = "Search", !.found = TrieSearch(nodes, key, key_len)]
  /\ UNCHANGED <<nodes, m_value_list, alive, stored, insertOrder, allocated, accepted, destroyed>>
  /\ UNCHANGED remapVars
  /\ UNCHANGED execVars

CountIn(seq, v) == Cardinality({i \in 1..Len(seq) : seq[i] = v})

ClearEffect(op) ==
  LET r == TrieClear(nodes, m_value_list)
  IN /\ nodes' = r.nodes
     /\ m_value_list' = r.list
     /\ destroyed' = [v \in Values |-> destroyed[v] + CountIn(r.deleted, v)]
     /\ stored' = NoStored
     /\ insertOrder' = <<>>
     /\ lastOp' = [NoOp EXCEPT !.op = op]
     /\ UNCHANGED <<allocated, accepted>>

Clear ==
  /\ alive
  /\ ClearEffect("Clear")
  /\ UNCHANGED alive
  /\ UNCHANGED remapVars
  /\ UNCHANGED execVars

\* ~Trie() { Clear(); }
Destructor ==
  /\ alive
  /\ ClearEffect("Destructor")
  /\ alive' = FALSE
  /\ UNCHANGED remapVars
  /\ UNCHANGED execVars

InsertCall ==
  \E key \in Keys \cup {NullKey}, value \in CallerValues, rank \in Ranks :
    \E key_len \in KeyLens(key) : Insert(key, value, rank, key_len)

SearchCall ==
  \E key \in SearchKeys \cup {NullKey} : \E key_len \in KeyLens(key) : Search(key, key_len)

TrieNext == InsertCall \/ SearchCall \/ Clear \/ Destructor

SpecTrie == TrieInit /\ [][TrieNext]_vars

\* ----------------------------------------------------------- remap calls
ChainIsDone == results # <<>> /\ results[Len(results)]

\* What a plugin may do: return any status, raise the redirect flag or not,
\* leave the request URL alone or write its own.
PluginOutcomes(url, n) ==
  [status : Statuses, redirect : {0, 1}, url : {url, PluginURL(n)}]

\* One call of run_single_remap by the driver, which calls again as long as
\* the last call returned false.
RunOneStep ==
  /\ ~ChainIsDone
  /\ LET st == [nplugins |-> nplugins, cur |-> cur, rewritten |-> rewritten,
                remap_redirect |-> remap_redirect, request_url |-> request_url]
         url0 == IF FirstStep(cur) THEN url_rewrite_remap_request(request_url)
                 ELSE request_url
     IN \E out \in PluginOutcomes(url0, cur) :
          LET r == run_single_remap(st, out)
          IN /\ cur' = r.cur
             /\ rewritten' = r.rewritten
             /\ remap_redirect' = r.remap_redirect
             /\ request_url' = r.request_url
             /\ results' = Append(results, r.zret)
             /\ invoked' = IF r.plugin
                           THEN Append(invoked, [index |-> cur, status |-> out.status,
                                                 redirect |-> out.redirect, url |-> out.url])
                           ELSE invoked
             /\ baseRewrites' = IF r.based THEN baseRewrites + 1 ELSE baseRewrites
  /\ UNCHANGED nplugins
  /\ UNCHANGED trieVars
  /\ UNCHANGED execVars

RemapNext == RunOneStep

SpecRemap == RemapInit /\ [][RemapNext]_vars

\* The driver reschedules the continuation immediately after every
\* continue, so a chain that is not done takes its next step.
SpecRemapFair == RemapInit /\ [][RemapNext]_vars /\ WF_vars(RunOneStep)

\* ----------------------------------------------------- interleaved chains
ExecutorDone(x) == x.results # <<>> /\ x.results[Len(x.results)]

\* The plugin behaviours tried when chains are interleaved: no rewrite, a
\* rewrite, a rewrite that ends the chain, each with the redirect flag up or
\* down; the plugin writes its own URL.
ScheduledOutcomes(n) ==
  [status : {TSREMAP_NO_REMAP, TSREMAP_DID_REMAP, TSREMAP_DID_REMAP_STOP},
   redirect : {0, 1}, url : {PluginURL(n)}]

\* Two chains start together, each on its own request.
InterleavedInit ==
  /\ execs \in [Executors -> {NewExecutor(n) : n \in 0..MaxPlugins}]
  /\ lastRun = 0
  /\ resumed = {}
  /\ nplugins = 0
  /\ cur = 0
  /\ rewritten = 0
  /\ remap_redirect = NullString
  /\ request_url = ClientURL
  /\ results = <<>>
  /\ invoked = <<>>
  /\ baseRewrites = 0
  /\ nodes = EmptyTrie
  /\ m_value_list = <<>>
  /\ alive = TRUE
  /\ stored = NoStored
  /\ insertOrder = <<>>
  /\ allocated = 0
  /\ accepted = {}
  /\ destroyed = [v \in Values |-> 0]
  /\ lastOp = NoOp

\* The driver runs one step of the chain of executor e; which chain it
\* picks next is up to the scheduler.
ScheduledStep(e) ==
  /\ ~ExecutorDone(execs[e])
  /\ \E out \in ScheduledOutcomes(execs[e].cur) :
       execs' = [execs EXCEPT ![e] = AfterStep(execs[e], ExecutorView(execs, e), out)]
  /\ lastRun' = e
  /\ resumed' = IF lastRun \notin {0, e} /\ execs[e].results # <<>>
                THEN resumed \cup {e} ELSE resumed
  /\ UNCHANGED trieVars
  /\ UNCHANGED remapVars

InterleavedNext == \E e \in Executors : ScheduledStep(e)

SpecInterleaved == InterleavedInit /\ [][InterleavedNext]_vars

\* ------------------------------------------------------------ trie claims
IsPrefix(p, k) == Len(p) <= Len(k) /\ SubSeq(k, 1, Len(p)) = p
StoredPrefixes(k) == {p \in DOMAIN stored : IsPrefix(p, k)}
SearchResult(k) == TrieSearch(nodes, k, Len(k))
Range(seq) == {seq[i] : i \in 1..Len(seq)}

\* C1, as stated: every key whose Insert returned true is found again by a
\* Search of the same key and length, which returns the value of that
\* Insert, whatever else is stored.
C1_RoundTripAlways ==
  \A k \in DOMAIN stored : SearchResult(k) = stored[k].value

\* C1, amended: every key whose Insert returned true is found again by a
\* Search of the same key and length, provided no stored proper prefix of
\* the key has a rank strictly lower than the key's rank.
C1_RoundTripUnlessOutranked ==
  \A k \in DOMAIN stored :
    (\A p \in StoredPrefixes(k) : stored[p].rank >= stored[k].rank)
      => SearchResult(k) = stored[k].value

C1_Witness ==
  \E k \in DOMAIN stored : \E p \in StoredPrefixes(k) :
    /\ p # k
    /\ stored[p].rank >= stored[k].rank
    /\ SearchResult(k) = stored[k].value

\* The stored prefix of k that Search must prefer: the smallest rank, and
\* among the prefixes of that rank the longest.
BestPrefix(k) ==
  CHOOSE p \in StoredPrefixes(k) :
    \A q \in StoredPrefixes(k) :
      \/ stored[p].rank < stored[q].rank
      \/ stored[p].rank = stored[q].rank /\ Len(p) >= Len(q)

\* C2: Search returns the value of the stored prefix of the search key with
\* the smallest rank, the longest one among the stored prefixes of that rank.
C2_SmallestRankThenLongest ==
  \A k \in SearchKeys :
    StoredPrefixes(k) # {} => SearchResult(k) = stored[BestPrefix(k)].value

C2_Witness ==
  \E k \in SearchKeys : \E p, q \in StoredPrefixes(k) :
    /\ Len(p) < Len(q)
    /\ stored[p].rank = stored[q].rank
    /\ SearchResult(k) = stored[q].value
    /\ k # q

\* C3: an Insert of a key that is already stored returns false and changes
\* neither the nodes, nor the value list, nor the result of any Search.
C3_DuplicateRejected ==
  [][(lastOp'.op = "Insert" /\ lastOp'.key \in DOMAIN stored)
       => /\ lastOp'.ret = FALSE
          /\ nodes' = nodes
          /\ m_value_list' = m_value_list
          /\ \A k \in SearchKeys :
               TrieSearch(nodes', k, Len(k)) = TrieSearch(nodes, k, Len(k))]_vars

C3_Witness ==
  /\ lastOp.op = "Insert"
  /\ lastOp.ret = FALSE
  /\ lastOp.key \in DOMAIN stored
  /\ \E v \in Values : v <= allocated /\ v \notin accepted

\* C4: Search finds nothing exactly when no stored key is a prefix of the
\* search key, and a value it returns was stored under a prefix of the
\* search key.
C4_MissIffNoStoredPrefix ==
  \A k \in SearchKeys :
    /\ SearchResult(k) = NullValue <=> StoredPrefixes(k) = {}
    /\ SearchResult(k) # NullValue
         => \E p \in StoredPrefixes(k) : stored[p].value = SearchResult(k)

C4_Witness ==
  /\ \E k \in SearchKeys :
       /\ k \notin DOMAIN stored
       /\ <<>> \notin DOMAIN stored
       /\ SearchResult(k) # NullValue
  /\ \E j \in SearchKeys : SearchResult(j) = NullValue

\* C5: a value is deleted by the trie at most once; an accepted value is
\* deleted exactly at the first Clear (or destructor) after its Insert; a
\* value no Insert accepted is never deleted.
C5_ValuesDestroyedOnce ==
  \A v \in Values :
    /\ destroyed[v] <= 1
    /\ v \notin accepted => destroyed[v] = 0
    /\ (v \in accepted /\ v \in Range(insertOrder)) => destroyed[v] = 0
    /\ (v \in accepted /\ v \notin Range(insertOrder)) => destroyed[v] = 1

C5_Witness ==
  /\ \E v \in accepted : destroyed[v] = 1
  /\ \E w \in Values : w <= allocated /\ w \notin accepted /\ destroyed[w] = 0

\* C6: Clear leaves the trie as the constructor does: empty value list,
\* nothing to iterate, no Search result, every Insert accepted; and a Clear
\* right after a Clear changes nothing and deletes nothing.
C6_ClearIsFresh ==
  [][lastOp'.op = "Clear"
       => /\ empty(m_value_list')
          /\ IterateValues(m_value_list') = <<>>
          /\ nodes' = EmptyTrie
          /\ \A k \in SearchKeys : TrieSearch(nodes', k, Len(k)) = NullValue
          /\ \A k \in Keys : \A r \in Ranks :
               TrieInsert(nodes', m_value_list', k, 1, r, Len(k)).ret
          /\ lastOp.op = "Clear"
               => /\ nodes' = nodes
                  /\ m_value_list' = m_value_list
                  /\ destroyed' = destroyed]_vars

C6_Witness ==
  /\ lastOp.op = "Clear"
  /\ Cardinality({v \in Values : destroyed[v] = 1}) >= 2

\* C7: iteration yields the values of the accepted inserts since the last
\* Clear, each once, in call order.
C7_IterationIsInsertionOrder ==
  IterateValues(m_value_list) = insertOrder

C7_Witness ==
  /\ Len(insertOrder) >= 2
  /\ lastOp.op = "Search"
  /\ <<>> \in DOMAIN stored
  /\ stored[<<>>].value = insertOrder[2]

\* ----------------------------------------------------------- remap claims
Last(seq) == seq[Len(seq)]
StepTaken == Len(results') = Len(results) + 1
PluginRan == Len(invoked') = Len(invoked) + 1
Continues == Cardinality({i \in 1..Len(results) : ~results[i]})
OnlyLastIsDone == \A i \in 1..Len(results) : results[i] <=> i = Len(results)

\* Every plugin of the route has run, and each returned NO_REMAP with the
\* redirect flag down.
AllPluginsNoRemap ==
  /\ Len(invoked) = nplugins
  /\ \A i \in 1..Len(invoked) :
       invoked[i].status = TSREMAP_NO_REMAP /\ invoked[i].redirect = 0

\* C8, as stated: when every plugin returns NO_REMAP, the driver sees as
\* many continue results as there are plugins, then one done, and no
\* rewrite is counted.
C8_ContinuePerPlugin ==
  (ChainIsDone /\ AllPluginsNoRemap)
    => /\ Continues = nplugins
       /\ OnlyLastIsDone
       /\ rewritten = 0

\* C8, amended: when every plugin returns NO_REMAP, the driver sees one
\* continue result fewer than there are plugins (none for an empty list),
\* then one done, the chain is exhausted and no rewrite is counted.
C8_ContinuePerPluginButLast ==
  (ChainIsDone /\ AllPluginsNoRemap)
    => /\ Continues = (IF nplugins = 0 THEN 0 ELSE nplugins - 1)
       /\ OnlyLastIsDone
       /\ rewritten = 0
       /\ remap_redirect = NullString
       /\ cur >= nplugins

C8_Witness ==
  /\ ChainIsDone
  /\ AllPluginsNoRemap
  /\ nplugins = 3
  /\ results = <<FALSE, FALSE, TRUE>>

StopStatus(status) ==
  status = TSREMAP_NO_REMAP_STOP \/ status = TSREMAP_DID_REMAP_STOP

\* C9: a step whose plugin returns a stop status without a redirect being
\* captured returns done whatever plugins remain, counts one rewrite for
\* DID_REMAP_STOP and none for NO_REMAP_STOP, and no plugin runs after it.
C9_StopEndsChain ==
  /\ [][(StepTaken /\ PluginRan /\ StopStatus(Last(invoked').status)
           /\ remap_redirect' = NullString)
          => /\ Last(results') = TRUE
             /\ rewritten' = rewritten
                  + (IF Last(invoked').status = TSREMAP_DID_REMAP_STOP THEN 1 ELSE 0)]_vars
  /\ [](\A i \in 1..Len(invoked) :
          (StopStatus(invoked[i].status) /\ remap_redirect = NullString)
            => i = Len(invoked) /\ ChainIsDone)

C9_Witness ==
  /\ ChainIsDone
  /\ Len(invoked) = 2
  /\ nplugins = 3
  /\ Last(invoked).status = TSREMAP_DID_REMAP_STOP
  /\ remap_redirect = NullString
  /\ rewritten = 1

RedirectRequested(o) ==
  /\ o.redirect # 0
  /\ o.status = TSREMAP_DID_REMAP \/ o.status = TSREMAP_DID_REMAP_STOP

\* C10: a step captures a redirect exactly when its plugin raised the
\* redirect flag and returned DID_REMAP or DID_REMAP_STOP; that step then
\* returns done, the target is the request URL as the plugin left it, the
\* target is never set again and no plugin runs afterwards.
C10_RedirectShortCircuit ==
  /\ [][StepTaken
          => /\ (remap_redirect' # NullString)
                  <=> (PluginRan /\ RedirectRequested(Last(invoked')))
             /\ remap_redirect' # NullString
                  => /\ Last(results') = TRUE
                     /\ request_url' = Last(invoked').url
                     /\ remap_redirect' = string_get(request_url')]_vars
  /\ [][remap_redirect # NullString => remap_redirect' = remap_redirect]_vars
  /\ [](remap_redirect # NullString
          => /\ ChainIsDone
             /\ \A i \in 1..Len(invoked) :
                  RedirectRequested(invoked[i]) <=> i = Len(invoked))

C10_Witness ==
  /\ remap_redirect = string_get(PluginURL(0))
  /\ nplugins = 3
  /\ Len(invoked) = 1
  /\ ChainIsDone

\* The plugin invocations that asked for a rewrite.
DidRemap(o) == o.status = TSREMAP_DID_REMAP \/ o.status = TSREMAP_DID_REMAP_STOP

\* C11, as stated: the rewrite count is the number of plugin invocations so
\* far that returned DID_REMAP or DID_REMAP_STOP.
C11_CountsEveryDidRemap ==
  rewritten = Cardinality({i \in 1..Len(invoked) : DidRemap(invoked[i])})

\* C11, amended: the rewrite count is the number of plugin invocations so
\* far that returned DID_REMAP or DID_REMAP_STOP without raising the
\* redirect flag; the invocation that redirects the chain is not counted.
C11_CountsDidRemapWithoutRedirect ==
  rewritten = Cardinality({i \in 1..Len(invoked) :
                             DidRemap(invoked[i]) /\ invoked[i].redirect = 0})

C11_Witness ==
  /\ ChainIsDone
  /\ remap_redirect # NullString
  /\ rewritten = 1
  /\ Len(invoked) = 2

Malformed(status) ==
  status \notin {TSREMAP_NO_REMAP, TSREMAP_DID_REMAP, TSREMAP_NO_REMAP_STOP,
                 TSREMAP_DID_REMAP_STOP}

\* C12: a step whose plugin returns a status outside the four defined ones,
\* redirect flag up or down, counts no rewrite, captures no redirect, does
\* not stop the chain, and returns done exactly when no plugin remains.
C12_MalformedIsNoRemap ==
  [][(StepTaken /\ PluginRan /\ Malformed(Last(invoked').status))
       => /\ rewritten' = rewritten
          /\ remap_redirect' = NullString
          /\ Last(results') <=> cur' >= nplugins
          /\ request_url' = Last(invoked').url]_vars

C12_Witness ==
  /\ Len(invoked) = 2
  /\ invoked[1].status = TSREMAP_ERROR /\ invoked[1].redirect = 1
  /\ invoked[2].status > TSREMAP_DID_REMAP_STOP /\ invoked[2].redirect = 1
  /\ nplugins = 3
  /\ results = <<FALSE, FALSE>>

Max(a, b) == IF a >= b THEN a ELSE b

\* C13: with an empty plugin list the first call applies the base rewrite,
\* runs no plugin and returns done; nothing is counted, no redirect is
\* captured and the driver never sees a continue.
C13_NoPluginExhaustsAtOnce ==
  (nplugins = 0 /\ results # <<>>)
    => /\ results = <<TRUE>>
       /\ invoked = <<>>
       /\ baseRewrites = 1
       /\ request_url = url_rewrite_remap_request(ClientURL)
       /\ rewritten = 0
       /\ remap_redirect = NullString

C13_Witness ==
  /\ nplugins = 0
  /\ results = <<TRUE>>
  /\ baseRewrites = 1

\* C14: the base rewrite is applied exactly once per chain, by the first
\* call and before the first plugin sees the request; afterwards the request
\* URL changes only as the plugins change it.
C14_BaseRewriteOnce ==
  /\ [](baseRewrites = (IF results = <<>> THEN 0 ELSE 1))
  /\ [](invoked # <<>>
          => /\ invoked[1].url \in {url_rewrite_remap_request(ClientURL), PluginURL(0)}
             /\ request_url = Last(invoked).url)
  /\ [][(StepTaken /\ results # <<>>)
          => /\ baseRewrites' = baseRewrites
             /\ request_url' \in {request_url, PluginURL(cur)}]_vars

C14_Witness ==
  /\ Len(results) = 3
  /\ baseRewrites = 1
  /\ invoked[1].url = PluginURL(0)
  /\ invoked[2].url = PluginURL(0)
  /\ request_url = PluginURL(0)

\* C15: a call that returns continue leaves the cursor below the plugin
\* count, and the call that follows it runs a plugin.
C15_ContinueMeansPluginLeft ==
  /\ []((results # <<>> /\ ~Last(results)) => cur < nplugins)
  /\ [][(StepTaken /\ results # <<>>) => PluginRan]_vars

C15_Witness ==
  /\ results = <<FALSE, FALSE>>
  /\ cur = 2
  /\ nplugins = 3

\* C16: plugins run in list order from index 0, none twice and none
\* skipped; a plugin runs only after every plugin before it ran, did not
\* return a stop status and did not redirect; the cursor grows by one per
\* call.
C16_PluginsInListOrder ==
  /\ [](\A i \in 1..Len(invoked) :
          /\ invoked[i].index = i - 1
          /\ i < Len(invoked)
               => ~StopStatus(invoked[i].status) /\ ~RedirectRequested(invoked[i]))
  /\ [](cur = Len(results))
  /\ [][StepTaken => cur' = cur + 1]_vars
  /\ [][PluginRan => Last(invoked').index = cur]_vars

C16_Witness ==
  /\ Len(invoked) = 3
  /\ invoked[1].status = TSREMAP_DID_REMAP
  /\ invoked[2].status = TSREMAP_ERROR
  /\ invoked[3].index = 2

Redirected == ChainIsDone /\ remap_redirect # NullString
Stopped ==
  /\ ChainIsDone
  /\ remap_redirect = NullString
  /\ invoked # <<>> /\ StopStatus(Last(invoked).status)
Exhausted ==
  /\ ChainIsDone
  /\ remap_redirect = NullString
  /\ cur >= nplugins
  /\ invoked # <<>> => ~StopStatus(Last(invoked).status)

\* C17: a driver that calls again after every continue gets done after at
\* most max(n, 1) calls, and the chain then is in exactly one of Redirected,
\* Stopped and Exhausted.
C17_ChainTerminates ==
  /\ <>ChainIsDone
  /\ [](Len(results) <= Max(nplugins, 1))
  /\ [](ChainIsDone
          => Cardinality({k \in {"Redirected", "Stopped", "Exhausted"} :
                \/ k = "Redirected" /\ Redirected
                \/ k = "Stopped" /\ Stopped
                \/ k = "Exhausted" /\ Exhausted}) = 1)

C17_Witness ==
  /\ Exhausted
  /\ nplugins = 3
  /\ Len(results) = 3
  /\ rewritten = 2

\* The chain of executor x run back-to-back: `steps` calls from a new
\* executor, with the plugin behaviours `outs` in order.
RECURSIVE BackToBack(_, _, _)
BackToBack(x, outs, steps) ==
  IF steps = 0 \/ ExecutorDone(x) THEN x
  ELSE LET view == [nplugins |-> x.nplugins, cur |-> x.cur, rewritten |-> x.rewritten,
                    remap_redirect |-> x.remap_redirect, request_url |-> x.request_url]
           out == IF Len(x.invoked) < Len(outs) THEN outs[Len(x.invoked) + 1]
                  ELSE [status |-> TSREMAP_NO_REMAP, redirect |-> 0, url |-> x.request_url]
       IN BackToBack(AfterStep(x, view, out), outs, steps - 1)

RECURSIVE ReachableFrom(_, _)
ReachableFrom(ns, node) ==
  {node} \cup UNION {ReachableFrom(ns, Append(node, c)) : c \in ns[node].children}

\* Every path a node can lie at: the prefixes of the keys.
Paths == UNION {{SubSeq(k, 1, n) : n \in 0..Len(k)} : k \in Keys}
UnoccupiedAreBlank ==
  \A p \in DOMAIN nodes :
    ~nodes[p].occupied => nodes[p].value = NullValue /\ nodes[p].rank = 0

\* C19, as stated: a node is reachable from the root exactly when some
\* inserted key is a prefix of the path to it, and a node that is not
\* occupied has a null value and rank 0.  (Read for the nodes below the
\* root, so that the root of an empty trie does not count against it.)
C19_ReachableIffKeyIsPrefixOfPath ==
  /\ \A p \in Paths \ {RootNode} :
       p \in ReachableFrom(nodes, RootNode)
         <=> \E k \in DOMAIN stored : IsPrefix(k, p)
  /\ UnoccupiedAreBlank

\* C19, amended: a node is reachable from the root exactly when it is the
\* root or the path to it is a prefix of some inserted key, and a node that
\* is not occupied has a null value and rank 0.
C19_ReachableIffPathIsPrefixOfKey ==
  /\ \A p \in Paths :
       p \in ReachableFrom(nodes, RootNode)
         <=> (p = RootNode \/ \E k \in DOMAIN stored : IsPrefix(p, k))
  /\ UnoccupiedAreBlank

C19_Witness ==
  /\ LongKey \in DOMAIN stored
  /\ <<1>> \in ReachableFrom(nodes, RootNode)
  /\ ~nodes[<<1>>].occupied
  /\ ~nodes[RootNode].occupied
  /\ <<0>> \in DOMAIN stored

OccupiedNodes == {p \in DOMAIN nodes : nodes[p].occupied}

\* C20: the value list holds exactly the values of the occupied nodes, one
\* entry per occupied node; so the trie is Empty exactly when no node is
\* occupied, which is exactly when no Search finds anything.
C20_ListMatchesOccupiedNodes ==
  /\ Len(m_value_list) = Cardinality(OccupiedNodes)
  /\ \A v \in Values \cup {NullValue} :
       CountIn(m_value_list, v) = Cardinality({p \in OccupiedNodes : nodes[p].value = v})
  /\ Empty <=> OccupiedNodes = {}
  /\ OccupiedNodes = {} <=> \A k \in SearchKeys : SearchResult(k) = NullValue

C20_Witness ==
  /\ Cardinality(OccupiedNodes) = 2
  /\ lastOp.op = "Search"
  /\ lastOp.found # NullValue
  /\ \E v \in Values : destroyed[v] = 0 /\ v \in Range(m_value_list)
====
